---- MODULE Spec2Model ----
(***************************************************************************)
(* Model of the payroll agent's reply workflow:                            *)
(*   - EmailMonitorService (src/src/services/email_monitor_service.py),    *)
(*     the mailbox poller: start/stop, the poll loop, de-duplication and   *)
(*     the clean-up of the processed-message set;                          *)
(*   - the two reply callbacks bound to it, EmployeeEngagementAgent and    *)
(*     BackgroundMonitorAgent (src/src/agents/...);                        *)
(*   - the engagement-status table of EmployeeEngagementAgent and the      *)
(*     operations on it, run one after the other and interleaved at their  *)
(*     await points;                                                       *)
(*   - the reason classifier (_analyze_reason_with_llm and                 *)
(*     _validate_reason_content) and the catalog of valid reasons of       *)
(*     PolicyRepository (src/src/models/company_policy.py);                *)
(*   - the detection of timesheet anomalies by analyze_timesheets          *)
(*     (src/src/agents/tools.py) and get_employee_summary                  *)
(*     (src/src/repositories/csv_repository.py);                           *)
(*   - the tools of EmployeeEngagementAgent that start and stop the        *)
(*     poller.                                                             *)
(*                                                                         *)
(* Tasks are asyncio coroutines: a step of the model is the code a task    *)
(* runs between two suspension points.  The poll loop suspends only in     *)
(* asyncio.sleep and while a reply callback awaits the language model;     *)
(* the IMAP calls are blocking and do not yield to the event loop.         *)
(***************************************************************************)
EXTENDS Integers, Sequences, FiniteSets, TLC

---------------------------------------------------------------------------
(* Bounds of the model *)

MaxLoops == 2
MaxMsgs == 2
MaxCycles == 2
MaxFaults == 1
MaxReplies == 3
MaxSends == 4
MaxCatalog == 7
MaxRecords == 3
MaxToolCalls == 2
FloodChunk == 51
FloodMsgs == 102
FloodCycles == 11

(* Constants of the program *)

PruneEvery == 10
PruneThreshold == 100
KeepCount == 50
MaxFollowupReplies == 3
MaxFollowupAttempts == 3

Loops == 1..MaxLoops

Callbacks == {"engagement", "background"}

Emails == {"john.smith@example.com", "jane.doe@example.com"}

FallbackEmail == "john.smith@example.com"

FallbackDate == "2025-08-08"

\* timesheet_date of a reply: a date found in the subject, or None
NoDate == "None"

\* a key with no entry in the table
NoCase == [status |-> "absent"]

\* last_reply = None
NoReply == [id |-> 0]

\* no call suspended
NoTask == [k |-> "none"]

---------------------------------------------------------------------------
(* Sequences and sets *)

Range(s) == {s[i] : i \in 1..Len(s)}

Min(S) == CHOOSE x \in S : \A y \in S : x <= y

RECURSIVE SortedSeq(_)
SortedSeq(S) == IF S = {} THEN <<>> ELSE <<Min(S)>> \o SortedSeq(S \ {Min(S)})

Reverse(s) == [i \in 1..Len(s) |-> s[Len(s) + 1 - i]]

LastN(s, n) == IF Len(s) <= n THEN s ELSE SubSeq(s, Len(s) - n + 1, Len(s))

IsPrefix(s, t) == Len(s) <= Len(t) /\ s = SubSeq(t, 1, Len(s))

---------------------------------------------------------------------------
VARIABLES
    reply_callback,      \* which agent's _handle_email_reply is bound
    monitoring_active,   \* EmailMonitorService.monitoring_active
    processed_messages,  \* EmailMonitorService.processed_messages (a set)
    check_count,         \* EmailMonitorService.check_count
    pc,                  \* per start_monitoring task: where it is suspended
    cycles,              \* per task: check_for_replies calls begun
    all_replies,         \* per task: local all_replies of check_for_replies
    new_replies,         \* per task: local new_replies of check_for_replies
    idx,                 \* per task: index in new_replies of the reply in flight
    inbox,               \* message ids UNSEEN at the IMAP server
    next_id,             \* next fresh message id
    msg_from,            \* from_email of every message, by id
    msg_date,            \* timesheet_date of every message, by id
    faults_left,         \* IMAP faults the environment may still inject
    engagement_status,   \* EmployeeEngagementAgent.engagement_status
    now,                 \* datetime.now() as read by send_followup_email
    reply_seq,           \* replies handed to the handler directly
    needs_followup_count, \* history, per key: replies that left the case
                          \* waiting for a follow-up
    followups_sent,      \* history, per key: follow-up emails sent
    anomaly_notified,    \* history: keys an anomaly notification was sent for
    replies_recorded,    \* history, per key: replies the handler recorded
    handler_task,        \* the _handle_email_reply call awaiting its verdict
    followup_task,       \* the send_followup_email call awaiting send_email
    content,             \* the text of the reply under classification
    response,            \* what the language model call comes back with
    analysis,            \* what _analyze_reason_with_llm returns
    verdict,             \* what _validate_reason_content returns
    cls_pc,              \* where the classification of the reply stands
    valid_reasons,       \* the catalog of the default policy
    timesheets,          \* the timesheet entries the repository returns
    anomaly_threshold_hours, \* settings.app.anomaly_threshold_hours
    anomalies_by_employee,   \* analyze_timesheets: the anomalies it reports
    summary_anomalies,   \* get_employee_summary: the anomalies, per employee
    detected,            \* the detections that have run on the entries
    tool_log,            \* the tool calls on the engagement agent, with
                         \* what each returned
    insertion_order,     \* history: processed_messages in order of insertion
    prune_before,        \* history: insertion_order just before the last clean-up
    forwarded,           \* history: ids handed to the reply callback
    reforwarded,         \* history: ids handed to the reply callback again
    forward_log,         \* history, per task: ids forwarded in its current cycle
    completed,           \* history, per task: callbacks finished in its cycle
    consumed,            \* history: ids the poller marked \Seen at the server
    handled,             \* history: ids whose callback returned normally
    raised,              \* history: ids whose callback raised
    fault_in,            \* history, per task: its last cycle with an IMAP fault
    unreachable_in,      \* history, per task: its last cycle in which the
                         \* connection to the mailbox failed
    synthesized,         \* history: ids of the replies _fallback_simulation
                         \* made up
    last_done            \* history: the callback that finished last

vars == <<reply_callback, monitoring_active, processed_messages, check_count,
          pc, cycles, all_replies, new_replies, idx, inbox, next_id, msg_from,
          msg_date, faults_left, engagement_status, now, reply_seq,
          needs_followup_count, followups_sent, anomaly_notified,
          replies_recorded,
          handler_task, followup_task, content, response, analysis, verdict,
          cls_pc, valid_reasons, timesheets, anomaly_threshold_hours,
          anomalies_by_employee, summary_anomalies, detected, tool_log,
          insertion_order, prune_before, forwarded, reforwarded, forward_log,
          completed, consumed, handled, raised, fault_in, unreachable_in,
          synthesized, last_done>>

pollerVars == <<monitoring_active, processed_messages, check_count, pc, cycles,
                all_replies, new_replies, idx, insertion_order, prune_before,
                forwarded, reforwarded, forward_log, completed, handled, raised,
                fault_in, unreachable_in, last_done>>

mailboxVars == <<inbox, next_id, msg_from, msg_date, faults_left, consumed,
                 synthesized>>

caseHistory == <<needs_followup_count, followups_sent, anomaly_notified,
                 replies_recorded>>

trackerVars == <<engagement_status, now, reply_seq, caseHistory>>

raceVars == <<handler_task, followup_task>>

classifierVars == <<content, response, analysis, verdict, cls_pc, valid_reasons>>

detectVars == <<timesheets, anomaly_threshold_hours, anomalies_by_employee,
                summary_anomalies, detected>>

toolVars == <<tool_log>>

---------------------------------------------------------------------------
(* EmailMonitorService: pure parts *)

\* A loop that ignores the flag, to compare with LoopContinues
LoopIgnoresFlag(active) == TRUE

\* line 60: the while test of the poll loop
LoopContinues(active) == active

\* A loop that gives up after a failed cycle, to compare with AfterCycle
ExitOnFailure(faulted, callbackRaised) ==
    IF faulted \/ callbackRaised THEN "done" ELSE "sleeping"

\* lines 74-78: after check_for_replies the loop sleeps and goes round again,
\* whether or not the fetch or a callback failed in the cycle
AfterCycle(faulted, callbackRaised) == "sleeping"

\* line 99: a reply is new when its message_id is not in processed_messages
IsNew(m, seen) == m \notin seen

\* A filter that hands the new replies over newest first, to compare with NewOf
NewestFirst(all, seen) == Reverse(SelectSeq(all, LAMBDA m : IsNew(m, seen)))

\* lines 97-102: the filter of check_for_replies, in the order of all_replies
NewOf(all, seen) == SelectSeq(all, LAMBDA m : IsNew(m, seen))

\* line 117: the clean-up condition
PruneDue(count, seen) ==
    count % PruneEvery = 0 /\ Cardinality(seen) > PruneThreshold

\* line 120: list(self.processed_messages).  The iteration order of a Python
\* set of strings is unspecified; two orders stand for it here.
SetOrders == {"insertion", "reversed"}

ListOfSet(order, ins) == IF order = "insertion" THEN ins ELSE Reverse(ins)

\* line 120: set(list(self.processed_messages)[-50:])
Pruned(order, ins) == Range(LastN(ListOfSet(order, ins), KeepCount))

---------------------------------------------------------------------------
(* EmployeeEngagementAgent: the engagement-status table *)

Keys == Emails \X {"2025-08-08", "08/08/2025", "08-08-2025", "unknown"}

\* The keys the operations on the table are exercised with
TrackedKeys == Emails \X {"2025-08-08", "unknown"}

\* _handle_email_reply, line 334: timesheet_date or "unknown";
\* line 344: status_key = f"{employee_email}_{timesheet_date}"
StatusKey(from, date) == <<from, IF date = NoDate THEN "unknown" ELSE date>>

\* _handle_email_reply, lines 328-335: the EmailReply is built from six
\* keyword arguments; pydantic requires every field that has no default
\* (lines 20-26) and raises ValidationError otherwise.
EmailReplyRequired ==
    {"employee_email", "employee_name", "reply_date", "subject", "content",
     "timesheet_date", "reason_provided"}

EmailReplySupplied ==
    {"employee_email", "employee_name", "reply_date", "subject", "content",
     "timesheet_date"}

EmailReplyValidates == EmailReplyRequired \subseteq EmailReplySupplied

\* Whether the bound callback raises before its first suspension point.
\* BackgroundMonitorAgent._handle_email_reply wraps its body in try/except
\* and awaits the language model; the engagement agent's handler builds the
\* EmailReply first.
RaisesAtEntry(cb) == cb = "engagement" /\ ~EmailReplyValidates

\* How a callback that did suspend can end.  The background agent's handler
\* catches everything and logs; the engagement agent's handler gets a verdict
\* or the error _validate_reason_content lets through (line 218).
CallbackOutcomes(cb) ==
    IF cb = "engagement" THEN {"valid", "invalid", "error"} ELSE {"logged"}

\* A handler that opens a new case for every reply, to compare with
\* RecordReply
RecordReplyAnew(table, k, reply) ==
    [table EXCEPT ![k] = [status |-> "replied", reply_count |-> 1,
                          last_email_sent |-> 0, last_reply |-> reply]]

\* _handle_email_reply, lines 343-357: the update of the table
RecordReply(table, k, reply) ==
    IF table[k] = NoCase
    THEN [table EXCEPT ![k] = [status |-> "replied", reply_count |-> 1,
                               last_email_sent |-> 0, last_reply |-> reply]]
    ELSE [table EXCEPT ![k] = [@ EXCEPT !.reply_count = @ + 1,
                                        !.last_reply = reply,
                                        !.status = "replied"]]

\* What the callback bound as cb leaves in the table for message m
TableAfter(cb, table, m, k, outcome) ==
    IF cb = "engagement" /\ outcome \in {"valid", "invalid"}
    THEN RecordReply(table, k, [id |-> m, reason_valid |-> (outcome = "valid")])
    ELSE table

ReplyCountOf(table, k) ==
    IF table[k] = NoCase THEN 0 ELSE table[k].reply_count

\* _send_followup_email_impl, lines 493-500: the two early returns
FollowupRefused(table, k) ==
    table[k] = NoCase \/ table[k].reply_count >= MaxFollowupReplies

\* _escalate_to_compliance_impl, lines 564-570: the two early returns
EscalationRefused(table, k) ==
    \/ table[k] = NoCase
    \/ table[k].last_reply = NoReply
    \/ ~table[k].last_reply.reason_valid

\* The state of a case in the terms of the case life cycle.  The code keeps
\* status (line 35: "pending", "replied", "validated", "escalated"; only
\* "pending", "replied" and "escalated" are ever assigned) and the verdict in
\* last_reply.reason_valid; a replied case whose reason is not valid waits
\* for a follow-up until line 499 refuses it ("Maximum follow-up attempts
\* reached ... Escalating to management").
StateOf(c) ==
    IF c = NoCase THEN "none"
    ELSE IF c.status = "pending" THEN "notified"
    ELSE IF c.status = "escalated" THEN "escalated"
    ELSE IF c.last_reply.reason_valid THEN "validated"
    ELSE IF c.reply_count >= MaxFollowupReplies THEN "escalated_unresolved"
    ELSE "needs_followup"

\* replies_recorded after the handler took the table from one value to
\* another
RecordedAfter(count, before, after) ==
    [k \in Keys |-> IF after[k] # before[k] THEN count[k] + 1 ELSE count[k]]

\* needs_followup_count after the table went from one value to another
CountAfter(count, before, after) ==
    [k \in Keys |->
        IF after[k] # before[k] /\ StateOf(after[k]) = "needs_followup"
        THEN count[k] + 1 ELSE count[k]]

DatedKeys == Emails \X {"2025-08-08"}

---------------------------------------------------------------------------
(* The reason classifier and the catalog of valid reasons *)

\* A reply text, as far as the classifier looks at it: the characters that
\* remain after strip(), the white space around them, and how the word
\* "forgot" occurs in it.
Contents ==
    [chars : {10, 11}, spaces : {0, 2}, forgot : {"absent", "forgot", "Forgot"}]

NoContent == [chars |-> 0, spaces |-> 0, forgot |-> "absent"]

\* len(content.strip())
StripLen(c) == c.chars

\* content.lower()
Lower(c) == [c EXCEPT !.forgot = IF @ = "Forgot" THEN "forgot" ELSE @]

\* "forgot" in text
ContainsForgot(c) == c.forgot = "forgot"

ReasonTypes == {"sick", "other", "training"}

\* The JSON objects the language model may answer with; a key that is not in
\* the object reads "missing".
JsonObjects ==
    [is_valid : {"true", "false", "missing"},
     reason_type : {"sick", "training", "missing"},
     confidence : {85},
     requires_approval : {"false"}]

\* runner.run raises; the answer holds no {...}; the answer holds {...} that
\* json.loads rejects; the answer holds a JSON object.
Responses ==
    {[kind |-> "raises"], [kind |-> "no_json"], [kind |-> "bad_json"]}
       \cup {[kind |-> "json", object |-> o] : o \in JsonObjects}

NoResponse == [kind |-> "none"]

NoAnalysis == [is_valid |-> "none"]

NoVerdict == [raised |-> FALSE, valid |-> FALSE, reason_type |-> "none"]

BoolText(b) == IF b THEN "true" ELSE "false"

\* _analyze_reason_with_llm, lines 226-297 (the same text in
\* BackgroundMonitorAgent, lines 171-242)
AnalyzeReasonWithLlm(c, r) ==
    IF r.kind = "json" THEN r.object
    ELSE IF r.kind = "no_json"
    THEN \* lines 276-285
         [is_valid |-> BoolText(StripLen(c) > 10 /\ ~ContainsForgot(Lower(c))),
          reason_type |-> "other", confidence |-> 50,
          requires_approval |-> "true"]
    ELSE \* lines 287-296: runner.run or json.loads raised
         [is_valid |-> BoolText(StripLen(c) > 10),
          reason_type |-> "other", confidence |-> 30,
          requires_approval |-> "true"]

\* _validate_reason_content: EmployeeEngagementAgent, lines 213-224, reads
\* analysis_result['is_valid'] with nothing around it; BackgroundMonitorAgent,
\* lines 153-169, has the same body inside try/except.
ValidateReasonContent(cb, a) ==
    IF a.is_valid = "missing"
    THEN [raised |-> (cb = "engagement"), valid |-> FALSE, reason_type |-> "none"]
    ELSE IF a.is_valid = "true"
    THEN [raised |-> FALSE, valid |-> TRUE,
          reason_type |-> IF a.reason_type = "missing" THEN "other"
                                                       ELSE a.reason_type]
    ELSE [raised |-> FALSE, valid |-> FALSE, reason_type |-> "none"]

\* How the callback ends on a verdict
OutcomeOf(v) ==
    IF v.raised THEN "error" ELSE IF v.valid THEN "valid" ELSE "invalid"

\* PolicyRepository._initialize_default_policies, lines 45-114
DefaultReasons ==
    <<[reason_type |-> "sick", is_active |-> TRUE],
      [reason_type |-> "personal", is_active |-> TRUE],
      [reason_type |-> "work_from_home", is_active |-> TRUE],
      [reason_type |-> "leave", is_active |-> TRUE],
      [reason_type |-> "other", is_active |-> TRUE]>>

\* PolicyRepository.get_valid_reasons, lines 120-125
GetValidReasons(cat) == SelectSeq(cat, LAMBDA x : x.is_active)

\* PolicyRepository.add_valid_reason, lines 127-134
AddValidReason(cat, rt) == Append(cat, [reason_type |-> rt, is_active |-> TRUE])

\* _get_or_create_reason_type, lines 299-321
GetOrCreateReasonType(cat, rt) ==
    IF \E i \in 1..Len(GetValidReasons(cat)) :
          GetValidReasons(cat)[i].reason_type = rt
    THEN cat
    ELSE AddValidReason(cat, rt)

\* the first entry of the catalog with the reason type, 0 if there is none
FirstOf(cat, rt) ==
    IF \E i \in 1..Len(cat) : cat[i].reason_type = rt
    THEN Min({i \in 1..Len(cat) : cat[i].reason_type = rt})
    ELSE 0

\* the reply under classification belongs to this case
ClassifiedKey == <<FallbackEmail, FallbackDate>>

---------------------------------------------------------------------------
(* The detection of timesheet anomalies: analyze_timesheets of the agent
   tools and get_employee_summary of the repository *)

\* settings.py, line 36: anomaly_threshold_hours when the environment does
\* not set ANOMALY_THRESHOLD_HOURS
DefaultThresholdHours == 8

\* tools.py, line 66: if ts.hours_worked < 8
AnalyzeMissingBelow == 8

\* tools.py, line 80: elif ts.hours_worked > 12
AnalyzeExcessiveAbove == 12

\* tools.py, line 76: "high" if ts.hours_worked < 4 else "medium"
AnalyzeHighBelow == 4

\* tools.py, lines 72 and 86: expected_hours=8.0
AnalyzeExpectedHours == 8

\* csv_repository.py, line 185: "medium" if ts.hours_worked > 4 else "high"
SummaryMediumAbove == 4

\* The hours of an entry: both sides of every threshold and of its half,
\* and the thresholds themselves
Hours == {3, 4, 7, 8, 12, 13}

\* settings.py, line 74: what ANOMALY_THRESHOLD_HOURS may be set to
ThresholdChoices == {6, 8}

\* The rows of the timesheet file, as employee and hours
TimesheetRows == UNION {[1..n -> Emails \X Hours] : n \in 0..MaxRecords}

\* _df_to_timesheet_entry: the entry of row i; the rows carry distinct
\* dates, in the order of the file
EntryOf(rows, i) ==
    [employee_email |-> rows[i][1], date |-> i, hours_worked |-> rows[i][2]]

RECURSIVE Flatten(_)
Flatten(ss) == IF ss = <<>> THEN <<>> ELSE Head(ss) \o Flatten(Tail(ss))

\* Employees in the order of their last entry, to compare with
\* FirstSeenOrder
RECURSIVE LastSeenOrder(_)
LastSeenOrder(tss) ==
    IF tss = <<>> THEN <<>>
    ELSE LET rest == LastSeenOrder(Tail(tss))
             e == Head(tss).employee_email
         IN  IF e \in Range(rest) THEN rest ELSE <<e>> \o rest

\* tools.py, lines 52-56: the keys of employee_timesheets, in the order of
\* their first insertion
RECURSIVE FirstSeenOrder(_)
FirstSeenOrder(tss) ==
    IF tss = <<>> THEN <<>>
    ELSE LET rest == FirstSeenOrder(SubSeq(tss, 1, Len(tss) - 1))
             e == tss[Len(tss)].employee_email
         IN  IF e \in Range(rest) THEN rest ELSE Append(rest, e)

\* tools.py, line 56, and csv_repository.py, line 107: the entries of one
\* employee, in the order of the rows
GroupOf(tss, e) == SelectSeq(tss, LAMBDA ts : ts.employee_email = e)

Anomaly(ts, expected, type, severity) ==
    [employee_email |-> ts.employee_email, date |-> ts.date,
     expected_hours |-> expected, actual_hours |-> ts.hours_worked,
     anomaly_type |-> type, severity |-> severity]

\* tools.py, lines 64-91: what one entry adds to anomalies
AnalyzeEntry(ts) ==
    IF ts.hours_worked < AnalyzeMissingBelow
    THEN <<Anomaly(ts, AnalyzeExpectedHours, "missing_hours",
                   IF ts.hours_worked < AnalyzeHighBelow THEN "high"
                                                         ELSE "medium")>>
    ELSE IF ts.hours_worked > AnalyzeExcessiveAbove
    THEN <<Anomaly(ts, AnalyzeExpectedHours, "excessive_hours", "medium")>>
    ELSE <<>>

\* tools.py, lines 51-102: the anomalies in the order of the report, which
\* goes through anomalies_by_employee
AnalyzeTimesheets(tss) ==
    LET order == FirstSeenOrder(tss)
        of(e) == LET group == GroupOf(tss, e)
                 IN  Flatten([j \in 1..Len(group) |-> AnalyzeEntry(group[j])])
    IN  Flatten([i \in 1..Len(order) |-> of(order[i])])

\* csv_repository.py, lines 174-186: what one entry adds to anomalies
SummaryEntry(ts, threshold) ==
    IF ts.hours_worked < threshold
    THEN <<Anomaly(ts, threshold, "missing_hours",
                   IF ts.hours_worked > SummaryMediumAbove THEN "medium"
                                                           ELSE "high")>>
    ELSE <<>>

\* csv_repository.py, lines 153-186: the anomalies of the summary of e
GetEmployeeSummary(tss, e, threshold) ==
    LET group == GroupOf(tss, e)
    IN  Flatten([j \in 1..Len(group) |-> SummaryEntry(group[j], threshold)])

---------------------------------------------------------------------------
(* The mailbox as _simulate_email_check sees it *)

\* _connect_imap, lines 198-283, and _fallback_simulation, lines 139-165.
\* A result: the replies returned, the ids left UNSEEN, the ids marked
\* \Seen, whether a synthetic reply was made up, whether the connection
\* failed, the faults used.
FetchResults ==
    LET clean == [replies |-> SortedSeq(inbox), left |-> {}, marked |-> inbox,
                  synthetic |-> FALSE, unreachable |-> FALSE, faults |-> 0]
        \* line 269: imap.store fails; the reply is returned but stays UNSEEN
        storeFails == {[replies |-> SortedSeq(inbox), left |-> {m},
                        marked |-> inbox \ {m}, synthetic |-> FALSE,
                        unreachable |-> FALSE, faults |-> 1] : m \in inbox}
        \* line 272: fetching one message fails; it is skipped and stays UNSEEN
        fetchFails == {[replies |-> SortedSeq(inbox \ {m}), left |-> {m},
                        marked |-> inbox \ {m}, synthetic |-> FALSE,
                        unreachable |-> FALSE, faults |-> 1] : m \in inbox}
        \* line 279: the connection fails; _fallback_simulation returns
        \* nothing or one made-up reply with a fresh id
        fallback == {[replies |-> IF s THEN <<next_id>> ELSE <<>>,
                      left |-> inbox, marked |-> {}, synthetic |-> s,
                      unreachable |-> TRUE, faults |-> 1] : s \in BOOLEAN}
    IN  {clean} \cup
        (IF faults_left > 0 THEN storeFails \cup fetchFails \cup fallback ELSE {})

\* The sender and the subject of the messages that arrive: both senders,
\* and subjects without a date and with dates of several patterns, occur
\* among any three consecutive ids.
FromFor(id) == IF id % 2 = 1 THEN "john.smith@example.com"
                             ELSE "jane.doe@example.com"

\* _extract_timesheet_date, lines 185-189: date_patterns, in their order
DatePatterns == <<"YYYY-MM-DD", "MM/DD/YYYY", "MM-DD-YYYY">>

\* A subject, as the dates written in it from left to right, each with the
\* pattern it matches
SubjectFor(id) ==
    IF id % 3 = 0 THEN <<>>
    ELSE IF id % 3 = 1
    THEN <<[pattern |-> "MM/DD/YYYY", text |-> "08/08/2025"],
           [pattern |-> "YYYY-MM-DD", text |-> "2025-08-08"]>>
    ELSE <<[pattern |-> "MM-DD-YYYY", text |-> "08-08-2025"],
           [pattern |-> "MM/DD/YYYY", text |-> "08/08/2025"]>>

\* re.search(pattern, subject), line 192: the leftmost match, or none
Search(pattern, subject) ==
    SelectSeq(subject, LAMBDA d : d.pattern = pattern)

\* _extract_timesheet_date, lines 182-196
ExtractTimesheetDate(subject) ==
    LET hits == {i \in 1..Len(DatePatterns) :
                    Search(DatePatterns[i], subject) # <<>>}
    IN  IF hits = {} THEN NoDate
        ELSE Search(DatePatterns[Min(hits)], subject)[1].text

\* _connect_imap, line 245
DateFor(id) == ExtractTimesheetDate(SubjectFor(id))

KeyOfMsg(from, date, m) == StatusKey(from[m], date[m])

---------------------------------------------------------------------------
Init ==
    /\ reply_callback \in Callbacks
    /\ monitoring_active = FALSE
    /\ processed_messages = {}
    /\ check_count = 0
    /\ pc = [l \in Loops |-> "idle"]
    /\ cycles = [l \in Loops |-> 0]
    /\ all_replies = [l \in Loops |-> <<>>]
    /\ new_replies = [l \in Loops |-> <<>>]
    /\ idx = [l \in Loops |-> 0]
    /\ inbox = {}
    /\ next_id = 1
    /\ msg_from = <<>>
    /\ msg_date = <<>>
    /\ faults_left = MaxFaults
    /\ engagement_status = [k \in Keys |-> NoCase]
    /\ now = 1
    /\ reply_seq = 0
    /\ needs_followup_count = [k \in Keys |-> 0]
    /\ followups_sent = [k \in Keys |-> 0]
    /\ anomaly_notified = {}
    /\ replies_recorded = [k \in Keys |-> 0]
    /\ handler_task = NoTask
    /\ followup_task = NoTask
    /\ content = NoContent
    /\ response = NoResponse
    /\ analysis = NoAnalysis
    /\ verdict = NoVerdict
    /\ cls_pc = "idle"
    /\ valid_reasons = DefaultReasons
    /\ timesheets = <<>>
    /\ anomaly_threshold_hours = DefaultThresholdHours
    /\ anomalies_by_employee = <<>>
    /\ summary_anomalies = [e \in Emails |-> <<>>]
    /\ detected = {}
    /\ tool_log = <<>>
    /\ insertion_order = <<>>
    /\ prune_before = <<>>
    /\ forwarded = {}
    /\ reforwarded = {}
    /\ forward_log = [l \in Loops |-> <<>>]
    /\ completed = [l \in Loops |-> 0]
    /\ consumed = {}
    /\ handled = {}
    /\ raised = {}
    /\ fault_in = [l \in Loops |-> 0]
    /\ unreachable_in = [l \in Loops |-> 0]
    /\ synthesized = {}
    /\ last_done = [n |-> 0, msg |-> 0, before |-> 0]

---------------------------------------------------------------------------
(* Environment: messages arrive in the mailbox *)

Arrive(burst, cap) ==
    /\ next_id <= cap
    /\ inbox' = inbox \cup (next_id..(next_id + burst - 1))
    /\ msg_from' = msg_from \o [i \in 1..burst |-> FromFor(next_id + i - 1)]
    /\ msg_date' = msg_date \o [i \in 1..burst |-> DateFor(next_id + i - 1)]
    /\ next_id' = next_id + burst
    /\ UNCHANGED <<reply_callback, faults_left, consumed, synthesized>>
    /\ UNCHANGED pollerVars
    /\ UNCHANGED trackerVars
    /\ UNCHANGED raceVars
    /\ UNCHANGED classifierVars
    /\ UNCHANGED detectVars
    /\ UNCHANGED toolVars

---------------------------------------------------------------------------
(* EmailMonitorService: the poll loop *)

\* check_for_replies, lines 113-122: the bookkeeping that ends a cycle.
\* seen and ins are the processed set and its insertion history then.
FinishCycle(l, seen, ins, faulted, callbackRaised) ==
    /\ check_count' = check_count + 1
    /\ IF PruneDue(check_count + 1, seen)
       THEN \E order \in SetOrders :
               /\ processed_messages' = Pruned(order, ins)
               /\ insertion_order' =
                     SelectSeq(ins, LAMBDA m : m \in Pruned(order, ins))
               /\ prune_before' = ins
       ELSE /\ processed_messages' = seen
            /\ insertion_order' = ins
            /\ prune_before' = <<>>
    \* start_monitoring, lines 74-78: await asyncio.sleep(self.check_interval)
    /\ pc' = [pc EXCEPT ![l] = AfterCycle(faulted, callbackRaised)]

\* start_monitoring line 62 and check_for_replies lines 92-109: one pass of
\* the loop body from the fetch up to the first suspension point.
BeginCycle(l) ==
    \E f \in FetchResults :
       LET all == f.replies
           fresh == NewOf(all, processed_messages)
           seen == processed_messages \cup Range(fresh)
           ins == insertion_order \o fresh
           sync == RaisesAtEntry(reply_callback)
           first == IF fresh = <<>> THEN <<>> ELSE <<fresh[1]>>
           sent == IF sync THEN fresh ELSE first
           from == IF f.synthetic THEN Append(msg_from, FallbackEmail)
                                  ELSE msg_from
           date == IF f.synthetic THEN Append(msg_date, FallbackDate)
                                  ELSE msg_date
       IN  /\ inbox' = f.left
           /\ consumed' = consumed \cup f.marked
           /\ faults_left' = faults_left - f.faults
           /\ next_id' = IF f.synthetic THEN next_id + 1 ELSE next_id
           /\ msg_from' = from
           /\ msg_date' = date
           /\ cycles' = [cycles EXCEPT ![l] = @ + 1]
           /\ fault_in' = [fault_in EXCEPT
                              ![l] = IF f.faults > 0 THEN cycles[l] + 1 ELSE @]
           /\ unreachable_in' =
                 [unreachable_in EXCEPT
                     ![l] = IF f.unreachable THEN cycles[l] + 1 ELSE @]
           /\ synthesized' = IF f.synthetic THEN synthesized \cup {next_id}
                                            ELSE synthesized
           /\ all_replies' = [all_replies EXCEPT ![l] = all]
           /\ new_replies' = [new_replies EXCEPT ![l] = fresh]
           \* _process_reply, lines 176-180: the callback is called
           /\ forwarded' = forwarded \cup Range(sent)
           /\ reforwarded' = reforwarded \cup (Range(sent) \cap forwarded)
           /\ forward_log' = [forward_log EXCEPT ![l] = sent]
           /\ handled' = handled
           /\ engagement_status' = engagement_status
           /\ IF sync \/ fresh = <<>>
              THEN \* every callback raised at once (line 179), or none was due
                   /\ raised' = raised \cup Range(sent)
                   /\ completed' = [completed EXCEPT ![l] = Len(sent)]
                   /\ last_done' =
                         IF sent = <<>> THEN last_done
                         ELSE [n |-> last_done.n + Len(sent),
                               msg |-> sent[Len(sent)],
                               before |-> ReplyCountOf(engagement_status,
                                   KeyOfMsg(from, date, sent[Len(sent)]))]
                   /\ idx' = [idx EXCEPT ![l] = 0]
                   /\ FinishCycle(l, seen, ins, f.faults > 0, sent # <<>>)
              ELSE \* the first callback awaits the language model
                   /\ raised' = raised
                   /\ completed' = [completed EXCEPT ![l] = 0]
                   /\ last_done' = last_done
                   /\ idx' = [idx EXCEPT ![l] = 1]
                   /\ processed_messages' = seen
                   /\ insertion_order' = ins
                   /\ pc' = [pc EXCEPT ![l] = "awaiting"]
                   /\ UNCHANGED <<check_count, prune_before>>

\* start_monitoring, lines 53-62, run as a new task.  Task slots are taken
\* in order.
StartTask(l) ==
    /\ pc[l] = "idle"
    /\ \A k \in 1..(l - 1) : pc[k] # "idle"
    /\ monitoring_active' = TRUE
    /\ BeginCycle(l)
    /\ UNCHANGED <<reply_callback, now, reply_seq, caseHistory>>
    /\ UNCHANGED raceVars
    /\ UNCHANGED classifierVars
    /\ UNCHANGED detectVars

\* start_monitoring called on the service as a new task
StartMonitoring(l) ==
    /\ StartTask(l)
    /\ UNCHANGED toolVars

\* start_monitoring, lines 74 and 60: the sleep ends and the while test runs
WakeUp(l, maxCycles) ==
    /\ pc[l] = "sleeping"
    /\ IF LoopContinues(monitoring_active)
       THEN /\ cycles[l] < maxCycles
            /\ BeginCycle(l)
       ELSE /\ pc' = [pc EXCEPT ![l] = "done"]
            /\ UNCHANGED <<processed_messages, check_count, cycles, all_replies,
                           new_replies, idx, insertion_order, prune_before,
                           forwarded, reforwarded, forward_log, completed,
                           handled, raised, fault_in, unreachable_in,
                           last_done, engagement_status>>
            /\ UNCHANGED mailboxVars
    /\ UNCHANGED <<reply_callback, monitoring_active, now, reply_seq,
                   caseHistory>>
    /\ UNCHANGED raceVars
    /\ UNCHANGED classifierVars
    /\ UNCHANGED detectVars
    /\ UNCHANGED toolVars

\* The language model answers and the callback in flight ends
\* (BackgroundMonitorAgent._handle_email_reply, lines 126-151, only logs;
\* EmployeeEngagementAgent._handle_email_reply, lines 337-357);
\* check_for_replies goes on with the next new reply, lines 108-109.
CallbackReturn(l) ==
    /\ pc[l] = "awaiting"
    /\ \E outcome \in CallbackOutcomes(reply_callback) :
          LET m == new_replies[l][idx[l]]
              k == KeyOfMsg(msg_from, msg_date, m)
          IN  /\ engagement_status' =
                    TableAfter(reply_callback, engagement_status, m, k, outcome)
              /\ handled' = IF outcome = "error" THEN handled
                                                 ELSE handled \cup {m}
              /\ raised' = IF outcome = "error" THEN raised \cup {m} ELSE raised
              /\ last_done' = [n |-> last_done.n + 1, msg |-> m,
                               before |-> ReplyCountOf(engagement_status, k)]
    /\ needs_followup_count' =
          CountAfter(needs_followup_count, engagement_status, engagement_status')
    /\ replies_recorded' =
          RecordedAfter(replies_recorded, engagement_status, engagement_status')
    /\ completed' = [completed EXCEPT ![l] = @ + 1]
    /\ IF idx[l] < Len(new_replies[l])
       THEN LET m == new_replies[l][idx[l] + 1]
            IN  /\ idx' = [idx EXCEPT ![l] = @ + 1]
                /\ forwarded' = forwarded \cup {m}
                /\ reforwarded' = reforwarded \cup ({m} \cap forwarded)
                /\ forward_log' = [forward_log EXCEPT ![l] = Append(@, m)]
                /\ UNCHANGED <<processed_messages, check_count, pc,
                               insertion_order, prune_before>>
       ELSE /\ idx' = [idx EXCEPT ![l] = 0]
            /\ FinishCycle(l, processed_messages, insertion_order,
                           fault_in[l] = cycles[l],
                           raised' \cap Range(new_replies[l]) # {})
            /\ UNCHANGED <<forwarded, reforwarded, forward_log>>
    /\ UNCHANGED <<reply_callback, monitoring_active, cycles, all_replies,
                   new_replies, fault_in, unreachable_in, now, reply_seq,
                   followups_sent, anomaly_notified>>
    /\ UNCHANGED raceVars
    /\ UNCHANGED classifierVars
    /\ UNCHANGED mailboxVars
    /\ UNCHANGED detectVars
    /\ UNCHANGED toolVars

\* stop_monitoring, lines 85-88
StopMonitoring ==
    /\ monitoring_active' = FALSE
    /\ UNCHANGED <<reply_callback, processed_messages, check_count, pc, cycles,
                   all_replies, new_replies, idx, insertion_order, prune_before,
                   forwarded, reforwarded, forward_log, completed, handled,
                   raised, fault_in, unreachable_in, last_done>>
    /\ UNCHANGED mailboxVars
    /\ UNCHANGED trackerVars
    /\ UNCHANGED raceVars
    /\ UNCHANGED classifierVars
    /\ UNCHANGED detectVars
    /\ UNCHANGED toolVars

---------------------------------------------------------------------------
(* EmployeeEngagementAgent: operations on the engagement-status table *)

\* _handle_email_reply, lines 337-357, for a reply record that has been
\* built: the verdict is stored in the reply and the table is updated.
HandleReply(k, valid) ==
    /\ reply_seq < MaxReplies
    /\ reply_seq' = reply_seq + 1
    /\ engagement_status' =
          RecordReply(engagement_status, k,
                      [id |-> reply_seq + 1, reason_valid |-> valid])
    /\ needs_followup_count' =
          CountAfter(needs_followup_count, engagement_status, engagement_status')
    /\ replies_recorded' =
          RecordedAfter(replies_recorded, engagement_status, engagement_status')
    /\ UNCHANGED <<reply_callback, now, followups_sent, anomaly_notified>>
    /\ UNCHANGED raceVars
    /\ UNCHANGED classifierVars
    /\ UNCHANGED pollerVars
    /\ UNCHANGED mailboxVars
    /\ UNCHANGED detectVars
    /\ UNCHANGED toolVars

\* _send_followup_email_impl, lines 489-535; sent is what send_email returns
SendFollowupEmail(k, sent) ==
    /\ now <= MaxSends
    /\ IF FollowupRefused(engagement_status, k) \/ ~sent
       THEN UNCHANGED <<engagement_status, now, followups_sent>>
       ELSE /\ engagement_status' =
                  [engagement_status EXCEPT
                      ![k] = [@ EXCEPT !.last_email_sent = now,
                                       !.status = "pending"]]
            /\ now' = now + 1
            /\ followups_sent' = [followups_sent EXCEPT ![k] = @ + 1]
    /\ UNCHANGED <<reply_callback, reply_seq, needs_followup_count,
                   replies_recorded,
                   anomaly_notified>>
    /\ UNCHANGED raceVars
    /\ UNCHANGED classifierVars
    /\ UNCHANGED pollerVars
    /\ UNCHANGED mailboxVars
    /\ UNCHANGED detectVars
    /\ UNCHANGED toolVars

\* _escalate_to_compliance_impl, lines 560-582
EscalateToCompliance(k) ==
    /\ IF EscalationRefused(engagement_status, k)
       THEN UNCHANGED engagement_status
       ELSE engagement_status' =
               [engagement_status EXCEPT ![k] = [@ EXCEPT !.status = "escalated"]]
    /\ UNCHANGED <<reply_callback, now, reply_seq, caseHistory>>
    /\ UNCHANGED raceVars
    /\ UNCHANGED classifierVars
    /\ UNCHANGED pollerVars
    /\ UNCHANGED mailboxVars
    /\ UNCHANGED detectVars
    /\ UNCHANGED toolVars

\* send_pending_notifications (tools.py, lines 224-301): the first notice
\* about a pending timesheet goes out by email; sent is what send_email
\* returns.  The engagement-status table is not touched.
SendPendingNotifications(k, sent) ==
    /\ anomaly_notified' = IF sent THEN anomaly_notified \cup {k}
                                   ELSE anomaly_notified
    /\ UNCHANGED <<reply_callback, engagement_status, now, reply_seq,
                   needs_followup_count, followups_sent, replies_recorded>>
    /\ UNCHANGED raceVars
    /\ UNCHANGED classifierVars
    /\ UNCHANGED pollerVars
    /\ UNCHANGED mailboxVars
    /\ UNCHANGED detectVars
    /\ UNCHANGED toolVars

---------------------------------------------------------------------------
(* EmployeeEngagementAgent: the same operations, step by step between the
   points where they are suspended *)

\* _handle_email_reply, lines 337-338, for a reply record that has been
\* built: the handler awaits the verdict of the language model.  seen is the
\* state of the case at that moment.
HandlerBegin(k) ==
    /\ handler_task = NoTask
    /\ reply_seq < MaxReplies
    /\ reply_seq' = reply_seq + 1
    /\ handler_task' = [k |-> k, id |-> reply_seq + 1,
                        seen |-> StateOf(engagement_status[k])]
    /\ UNCHANGED <<reply_callback, engagement_status, now, caseHistory,
                   followup_task>>
    /\ UNCHANGED pollerVars
    /\ UNCHANGED mailboxVars
    /\ UNCHANGED classifierVars
    /\ UNCHANGED detectVars
    /\ UNCHANGED toolVars

\* _handle_email_reply, lines 339-357: the verdict arrives and the table is
\* updated
HandlerEnd(valid) ==
    /\ handler_task # NoTask
    /\ engagement_status' =
          RecordReply(engagement_status, handler_task.k,
                      [id |-> handler_task.id, reason_valid |-> valid])
    /\ needs_followup_count' =
          CountAfter(needs_followup_count, engagement_status, engagement_status')
    /\ replies_recorded' =
          RecordedAfter(replies_recorded, engagement_status, engagement_status')
    /\ handler_task' = NoTask
    /\ UNCHANGED <<reply_callback, now, reply_seq, followups_sent,
                   anomaly_notified, followup_task>>
    /\ UNCHANGED pollerVars
    /\ UNCHANGED mailboxVars
    /\ UNCHANGED classifierVars
    /\ UNCHANGED detectVars
    /\ UNCHANGED toolVars

\* _send_followup_email_impl, lines 489-521: the two tests, then the call
\* awaits send_email
FollowupBegin(k) ==
    /\ followup_task = NoTask
    /\ now <= MaxSends
    /\ followup_task' = IF FollowupRefused(engagement_status, k)
                        THEN NoTask ELSE [k |-> k]
    /\ UNCHANGED <<reply_callback, handler_task>>
    /\ UNCHANGED trackerVars
    /\ UNCHANGED pollerVars
    /\ UNCHANGED mailboxVars
    /\ UNCHANGED classifierVars
    /\ UNCHANGED detectVars
    /\ UNCHANGED toolVars

\* _send_followup_email_impl, lines 523-535: send_email returns sent and the
\* case read at line 496 is written
FollowupEnd(sent) ==
    /\ followup_task # NoTask
    /\ followup_task' = NoTask
    /\ IF sent
       THEN /\ engagement_status' =
                  [engagement_status EXCEPT
                      ![followup_task.k] = [@ EXCEPT !.last_email_sent = now,
                                                     !.status = "pending"]]
            /\ now' = now + 1
            /\ followups_sent' = [followups_sent EXCEPT ![followup_task.k] = @ + 1]
       ELSE UNCHANGED <<engagement_status, now, followups_sent>>
    /\ UNCHANGED <<reply_callback, reply_seq, needs_followup_count,
                   replies_recorded,
                   anomaly_notified, handler_task>>
    /\ UNCHANGED pollerVars
    /\ UNCHANGED mailboxVars
    /\ UNCHANGED classifierVars
    /\ UNCHANGED detectVars
    /\ UNCHANGED toolVars

---------------------------------------------------------------------------
(* The classification of a reply, from line 337 of _handle_email_reply on *)

\* A reply reaches _validate_reason_content: its text, and what the call of
\* the language model will come back with
ReplyArrives(c, r) ==
    /\ cls_pc \in {"idle", "done"}
    /\ reply_seq < MaxReplies
    /\ content' = c
    /\ response' = r
    /\ analysis' = NoAnalysis
    /\ verdict' = NoVerdict
    /\ cls_pc' = "input"
    /\ UNCHANGED <<reply_callback, valid_reasons>>
    /\ UNCHANGED trackerVars
    /\ UNCHANGED raceVars
    /\ UNCHANGED pollerVars
    /\ UNCHANGED mailboxVars
    /\ UNCHANGED detectVars
    /\ UNCHANGED toolVars

\* _analyze_reason_with_llm: the call of the language model ends
Analyze ==
    /\ cls_pc = "input"
    /\ analysis' = AnalyzeReasonWithLlm(content, response)
    /\ cls_pc' = "analysed"
    /\ UNCHANGED <<reply_callback, content, response, verdict, valid_reasons>>
    /\ UNCHANGED trackerVars
    /\ UNCHANGED raceVars
    /\ UNCHANGED pollerVars
    /\ UNCHANGED mailboxVars
    /\ UNCHANGED detectVars
    /\ UNCHANGED toolVars

\* _validate_reason_content from its line 4 on, with _get_or_create_reason_type,
\* and the rest of the handler: EmployeeEngagementAgent._handle_email_reply,
\* lines 339-357, records the reply; BackgroundMonitorAgent._handle_email_reply,
\* lines 133-151, logs it.
Validate ==
    /\ cls_pc = "analysed"
    /\ LET v == ValidateReasonContent(reply_callback, analysis)
       IN  /\ verdict' = v
           /\ valid_reasons' =
                 IF v.valid /\ Len(valid_reasons) < MaxCatalog
                 THEN GetOrCreateReasonType(valid_reasons, v.reason_type)
                 ELSE valid_reasons
           /\ engagement_status' =
                 TableAfter(reply_callback, engagement_status, reply_seq + 1,
                            ClassifiedKey, OutcomeOf(v))
    /\ needs_followup_count' =
          CountAfter(needs_followup_count, engagement_status, engagement_status')
    /\ replies_recorded' =
          RecordedAfter(replies_recorded, engagement_status, engagement_status')
    /\ reply_seq' = reply_seq + 1
    /\ cls_pc' = "done"
    /\ UNCHANGED <<reply_callback, content, response, analysis, now,
                   followups_sent, anomaly_notified>>
    /\ UNCHANGED raceVars
    /\ UNCHANGED pollerVars
    /\ UNCHANGED mailboxVars
    /\ UNCHANGED detectVars
    /\ UNCHANGED toolVars

---------------------------------------------------------------------------
(* Operations on the catalog of valid reasons *)

\* _get_or_create_reason_type, lines 299-321, for a reason type the language
\* model named
GetOrCreate(rt) ==
    /\ Len(valid_reasons) < MaxCatalog
    /\ valid_reasons' = GetOrCreateReasonType(valid_reasons, rt)
    /\ UNCHANGED <<reply_callback, content, response, analysis, verdict, cls_pc>>
    /\ UNCHANGED trackerVars
    /\ UNCHANGED raceVars
    /\ UNCHANGED pollerVars
    /\ UNCHANGED mailboxVars
    /\ UNCHANGED detectVars
    /\ UNCHANGED toolVars

\* _update_policy_reasons_impl, lines 456-487
UpdatePolicyReasons(rt) ==
    /\ Len(valid_reasons) < MaxCatalog
    /\ valid_reasons' = AddValidReason(valid_reasons, rt)
    /\ UNCHANGED <<reply_callback, content, response, analysis, verdict, cls_pc>>
    /\ UNCHANGED trackerVars
    /\ UNCHANGED raceVars
    /\ UNCHANGED pollerVars
    /\ UNCHANGED mailboxVars
    /\ UNCHANGED detectVars
    /\ UNCHANGED toolVars

\* PolicyRepository.update_valid_reason, lines 136-145
UpdateValidReason(rt, updated) ==
    /\ valid_reasons' =
          IF FirstOf(valid_reasons, rt) = 0 THEN valid_reasons
          ELSE [valid_reasons EXCEPT ![FirstOf(valid_reasons, rt)] = updated]
    /\ UNCHANGED <<reply_callback, content, response, analysis, verdict, cls_pc>>
    /\ UNCHANGED trackerVars
    /\ UNCHANGED raceVars
    /\ UNCHANGED pollerVars
    /\ UNCHANGED mailboxVars
    /\ UNCHANGED detectVars
    /\ UNCHANGED toolVars

\* PolicyRepository.deactivate_reason, lines 147-157
DeactivateReason(rt) ==
    /\ valid_reasons' =
          IF FirstOf(valid_reasons, rt) = 0 THEN valid_reasons
          ELSE [valid_reasons EXCEPT
                   ![FirstOf(valid_reasons, rt)] = [@ EXCEPT !.is_active = FALSE]]
    /\ UNCHANGED <<reply_callback, content, response, analysis, verdict, cls_pc>>
    /\ UNCHANGED trackerVars
    /\ UNCHANGED raceVars
    /\ UNCHANGED pollerVars
    /\ UNCHANGED mailboxVars
    /\ UNCHANGED detectVars
    /\ UNCHANGED toolVars

---------------------------------------------------------------------------
(* The detection of anomalies *)

\* The settings are read from the environment (settings.py, line 74) and
\* the repository loads the timesheet file
LoadTimesheets(rows, threshold) ==
    /\ detected = {}
    /\ timesheets' = [i \in 1..Len(rows) |-> EntryOf(rows, i)]
    /\ anomaly_threshold_hours' = threshold
    /\ detected' = {"loaded"}
    /\ UNCHANGED <<reply_callback, anomalies_by_employee, summary_anomalies>>
    /\ UNCHANGED pollerVars
    /\ UNCHANGED mailboxVars
    /\ UNCHANGED trackerVars
    /\ UNCHANGED raceVars
    /\ UNCHANGED classifierVars
    /\ UNCHANGED toolVars

\* analyze_timesheets, tools.py lines 51-102
Detect ==
    /\ "loaded" \in detected
    /\ "analyze_timesheets" \notin detected
    /\ anomalies_by_employee' = AnalyzeTimesheets(timesheets)
    /\ detected' = detected \cup {"analyze_timesheets"}
    /\ UNCHANGED <<reply_callback, timesheets, anomaly_threshold_hours,
                   summary_anomalies>>
    /\ UNCHANGED pollerVars
    /\ UNCHANGED mailboxVars
    /\ UNCHANGED trackerVars
    /\ UNCHANGED raceVars
    /\ UNCHANGED classifierVars
    /\ UNCHANGED toolVars

\* get_employee_summary, csv_repository.py lines 153-192, for employee e
Summarize(e) ==
    /\ "loaded" \in detected
    /\ e \notin detected
    /\ summary_anomalies' =
          [summary_anomalies EXCEPT
              ![e] = GetEmployeeSummary(timesheets, e, anomaly_threshold_hours)]
    /\ detected' = detected \cup {e}
    /\ UNCHANGED <<reply_callback, timesheets, anomaly_threshold_hours,
                   anomalies_by_employee>>
    /\ UNCHANGED pollerVars
    /\ UNCHANGED mailboxVars
    /\ UNCHANGED trackerVars
    /\ UNCHANGED raceVars
    /\ UNCHANGED classifierVars
    /\ UNCHANGED toolVars

---------------------------------------------------------------------------
(* EmployeeEngagementAgent: the tools that start and stop the poller *)

\* employee_engagement_agent.py, lines 3-12: the names the module imports
ModuleNames ==
    {"List", "Dict", "Optional", "Any", "datetime", "timedelta", "Agent",
     "function_tool", "BaseModel", "settings", "EmailService",
     "EmailMonitorService", "EmailMessage", "CSVTimesheetRepository",
     "PolicyRepository", "ValidReason"}

\* lines 380 and 430: asyncio.create_task(...) raises NameError when the
\* module has no name asyncio; the tool catches it (lines 386, 432)
CreateTaskRaises == "asyncio" \notin ModuleNames

Logged(tool, result) ==
    tool_log' = Append(tool_log, [tool |-> tool, result |-> result,
                                  was_active |-> monitoring_active])

\* A tool call that returns without touching the poller
ToolOnlyReturns ==
    /\ UNCHANGED reply_callback
    /\ UNCHANGED pollerVars
    /\ UNCHANGED mailboxVars
    /\ UNCHANGED trackerVars
    /\ UNCHANGED raceVars
    /\ UNCHANGED classifierVars
    /\ UNCHANGED detectVars

\* _start_email_monitoring_impl, lines 426-433
StartEmailMonitoring ==
    /\ Len(tool_log) < MaxToolCalls
    /\ IF CreateTaskRaises
       THEN /\ Logged("start_email_monitoring", "failed")
            /\ ToolOnlyReturns
       ELSE /\ Logged("start_email_monitoring", "started")
            /\ \E l \in Loops : StartTask(l)

\* _check_email_replies_impl, lines 372-394
CheckEmailReplies ==
    /\ Len(tool_log) < MaxToolCalls
    /\ IF monitoring_active
       THEN /\ Logged("check_email_replies", "already_active")
            /\ ToolOnlyReturns
       ELSE IF CreateTaskRaises
       THEN /\ Logged("check_email_replies", "failed")
            /\ ToolOnlyReturns
       ELSE /\ Logged("check_email_replies", "started")
            /\ \E l \in Loops : StartTask(l)

\* _stop_email_monitoring_impl, lines 435-441
StopEmailMonitoring ==
    /\ Len(tool_log) < MaxToolCalls
    /\ Logged("stop_email_monitoring", "stopped")
    /\ monitoring_active' = FALSE
    /\ UNCHANGED <<reply_callback, processed_messages, check_count, pc, cycles,
                   all_replies, new_replies, idx, insertion_order, prune_before,
                   forwarded, reforwarded, forward_log, completed, handled,
                   raised, fault_in, unreachable_in, last_done>>
    /\ UNCHANGED mailboxVars
    /\ UNCHANGED trackerVars
    /\ UNCHANGED raceVars
    /\ UNCHANGED classifierVars
    /\ UNCHANGED detectVars

---------------------------------------------------------------------------
Next ==
    \/ Arrive(1, MaxMsgs)
    \/ \E l \in Loops : StartMonitoring(l)
    \/ \E l \in Loops : WakeUp(l, MaxCycles)
    \/ \E l \in Loops : CallbackReturn(l)
    \/ StopMonitoring

Spec == Init /\ [][Next]_vars

\* asyncio.sleep ends and the call of the language model ends: a suspended
\* poll loop is resumed.
FairSpec ==
    /\ Spec
    /\ \A l \in Loops : WF_vars(WakeUp(l, MaxCycles))
    /\ \A l \in Loops : WF_vars(CallbackReturn(l))

\* The poller of an EmployeeEngagementAgent, one loop, under a mailbox that
\* delivers in bursts: the runs are long enough to reach the clean-up of
\* processed_messages.  The engagement callback never suspends (see
\* RaisesAtEntry), so CallbackReturn has no part in these runs.
InitFlood == Init /\ reply_callback = "engagement"

NextFlood ==
    \/ Arrive(FloodChunk, FloodMsgs)
    \/ StartMonitoring(1)
    \/ WakeUp(1, FloodCycles)
    \/ StopMonitoring

SpecFlood == InitFlood /\ [][NextFlood]_vars

\* The engagement-status table under the operations of the agent, each
\* reply handed to the table update as a built reply record.
InitTracker == Init /\ reply_callback = "engagement"

NextTracker ==
    \/ \E k \in TrackedKeys, valid \in BOOLEAN : HandleReply(k, valid)
    \/ \E k \in TrackedKeys, sent \in BOOLEAN : SendFollowupEmail(k, sent)
    \/ \E k \in TrackedKeys : EscalateToCompliance(k)
    \/ \E k \in DatedKeys, sent \in BOOLEAN : SendPendingNotifications(k, sent)

SpecTracker == InitTracker /\ [][NextTracker]_vars

\* The same table when the reply handler of the poll loop and the tool calls
\* of the agent run as separate asyncio tasks.
NextRace ==
    \/ \E k \in DatedKeys : HandlerBegin(k)
    \/ \E valid \in BOOLEAN : HandlerEnd(valid)
    \/ \E k \in DatedKeys : FollowupBegin(k)
    \/ \E sent \in BOOLEAN : FollowupEnd(sent)
    \/ \E k \in DatedKeys : EscalateToCompliance(k)

SpecRace == InitTracker /\ [][NextRace]_vars

\* The classification of replies, one reply after the other, by either agent
NextClassifier ==
    \/ \E c \in Contents, r \in Responses : ReplyArrives(c, r)
    \/ Analyze
    \/ Validate

SpecClassifier == Init /\ [][NextClassifier]_vars

\* The catalog under the classifier and the policy tools
NextCatalog ==
    \/ \E rt \in ReasonTypes : GetOrCreate(rt)
    \/ \E rt \in ReasonTypes : UpdatePolicyReasons(rt)
    \/ \E rt \in ReasonTypes, nt \in ReasonTypes, a \in BOOLEAN :
          UpdateValidReason(rt, [reason_type |-> nt, is_active |-> a])
    \/ \E rt \in ReasonTypes : DeactivateReason(rt)

SpecCatalog == InitTracker /\ [][NextCatalog]_vars

\* The detection of anomalies on a timesheet file, by both paths
NextDetect ==
    \/ \E rows \in TimesheetRows, t \in ThresholdChoices : LoadTimesheets(rows, t)
    \/ Detect
    \/ \E e \in Emails : Summarize(e)

SpecDetect == InitTracker /\ [][NextDetect]_vars

\* The poller of an EmployeeEngagementAgent under its tools; the monitor
\* service of the agent is an attribute any caller may start as well.
NextAgent ==
    \/ Arrive(1, MaxMsgs)
    \/ \E l \in Loops : StartMonitoring(l)
    \/ \E l \in Loops : WakeUp(l, MaxCycles)
    \/ StopMonitoring
    \/ StartEmailMonitoring
    \/ CheckEmailReplies
    \/ StopEmailMonitoring

SpecAgent == InitTracker /\ [][NextAgent]_vars

---------------------------------------------------------------------------
(* Properties of the mailbox poller *)

\* C1: over any sequence of poll cycles, clean-ups of processed_messages and
\* re-deliveries included, a message_id is handed to the reply callback at
\* most once.
NeverForwardedTwice == reforwarded = {}

\* C2: start_monitoring is idempotent: whatever the sequence of
\* start_monitoring and stop_monitoring calls, at most one poll loop is
\* alive, so processed_messages has one writer.
AtMostOneLoop ==
    Cardinality({l \in Loops : pc[l] \in {"awaiting", "sleeping"}}) <= 1

\* C3: stop_monitoring is cooperative and effective: once the flag is down
\* and stays down every live loop eventually exits; a loop exits only from
\* its sleep between two cycles, having seen the flag down, with the cycle
\* before it run to completion; and a loop that has exited begins no fetch.
StopIsCooperative ==
    /\ [][\A l \in Loops :
             /\ (pc'[l] = "done" /\ pc[l] # "done")
                   => (pc[l] = "sleeping" /\ ~monitoring_active)
             /\ pc[l] = "done" => (pc'[l] = "done" /\ cycles'[l] = cycles[l])
             /\ pc[l] = "awaiting" => pc'[l] \in {"awaiting", "sleeping"}]_vars
    /\ [](\A l \in Loops :
             pc[l] \in {"sleeping", "done"}
                => completed[l] = Len(new_replies[l]))
    /\ \A l \in Loops :
          (pc[l] \in {"awaiting", "sleeping"} /\ ~monitoring_active)
             ~> (pc[l] = "done" \/ monitoring_active)

\* C3, its case: a loop has exited after a cycle in which it forwarded a reply
StoppedAfterWork ==
    \E l \in Loops :
       /\ pc[l] = "done"
       /\ ~monitoring_active
       /\ Len(new_replies[l]) >= 1
       /\ completed[l] = Len(new_replies[l])

\* C4: a failed fetch or a failed callback never ends the poll loop and
\* never lowers the flag: a loop exits only with the flag down, no step of a
\* cycle lowers the flag, a cycle in flight reaches its sleep, and while the
\* flag is up a sleeping loop begins another cycle.
LoopSurvivesFailures ==
    /\ [][\A l \in Loops :
             /\ (pc'[l] = "done" /\ pc[l] # "done") => ~monitoring_active
             /\ (pc'[l] # pc[l] \/ cycles'[l] # cycles[l]
                   \/ completed'[l] # completed[l])
                   => (monitoring_active => monitoring_active')]_vars
    /\ \A l \in Loops : (pc[l] = "awaiting") ~> (pc[l] = "sleeping")
    /\ \A l \in Loops : \A n \in 0..(MaxCycles - 1) :
          (pc[l] = "sleeping" /\ cycles[l] = n)
             ~> (cycles[l] > n \/ ~monitoring_active)

\* C4, its case: a loop had an IMAP fault in a cycle whose callback raised,
\* and has begun a later cycle
CycleAfterFailure ==
    \E l \in Loops :
       /\ fault_in[l] >= 1
       /\ cycles[l] > fault_in[l]
       /\ raised # {}
       /\ monitoring_active

\* C5: a clean-up leaves processed_messages with exactly the 50 identifiers
\* added last; at any other point no identifier is removed.
PruneKeepsMostRecent ==
    /\ prune_before # <<>>
          => processed_messages = Range(LastN(prune_before, KeepCount))
    /\ prune_before = <<>> => processed_messages = Range(insertion_order)

\* C6: a message is marked \Seen at the mailbox only after its callback has
\* returned normally.
ConsumedOnlyAfterForward == consumed \subseteq handled

\* C7: poll cycles never overlap: no two fetch/process cycles of the same
\* EmailMonitorService are in progress at once.
CyclesNeverOverlap == Cardinality({l \in Loops : pc[l] = "awaiting"}) <= 1

\* C8: within one batch the new replies are handed to the callback one at a
\* time in the order the mailbox returned them, the callback of one reply
\* ending before the next reply is handed over.
ForwardedInOrder ==
    \A l \in Loops :
       /\ IsPrefix(forward_log[l], new_replies[l])
       /\ new_replies[l] =
             SelectSeq(all_replies[l], LAMBDA m : m \in Range(new_replies[l]))
       /\ Len(forward_log[l]) - completed[l] \in {0, 1}
       /\ pc[l] = "awaiting"
             => (Len(forward_log[l]) = completed[l] + 1
                   /\ idx[l] = Len(forward_log[l]))

\* C8, its case: a batch of two new replies, the second handed over after
\* the callback of the first has returned
SecondAfterFirst ==
    \E l \in Loops :
       /\ pc[l] = "awaiting"
       /\ Len(new_replies[l]) >= 2
       /\ idx[l] = 2
       /\ completed[l] = 1

---------------------------------------------------------------------------
(* Properties of the engagement-status table *)

\* C9: every reply the poller hands to the callback leaves the case of its
\* key with last_reply that reply, reply_count one more than before, and
\* status replied.
ReplyRecorded ==
    [][last_done'.n # last_done.n =>
          LET m == last_done'.msg
              k == KeyOfMsg(msg_from', msg_date', m)
          IN  /\ engagement_status'[k] # NoCase
              /\ engagement_status'[k].last_reply.id = m
              /\ engagement_status'[k].reply_count = last_done'.before + 1
              /\ engagement_status'[k].status = "replied"]_vars

CaseFromFirstNotification ==
    /\ [](\A k \in anomaly_notified : engagement_status[k] # NoCase)
    /\ [][\A k \in Keys :
             engagement_status[k] # NoCase => engagement_status'[k] # NoCase]_vars

\* Run one after the other, the operations leave no case pending that has
\* reached the maximum of replies (this holds of SpecTracker).
SerialFollowupRespectsMaximum ==
    \A k \in Keys :
       (engagement_status[k] # NoCase /\ engagement_status[k].status = "pending")
          => engagement_status[k].reply_count < MaxFollowupReplies

---------------------------------------------------------------------------
(* Properties of the reason classifier and of the catalog *)

\* C18: whenever the call of the language model fails (it raises, or its
\* answer holds no JSON object that can be parsed) the analysis is exactly
\* the fallback verdict: valid iff the stripped text is longer than 10
\* characters and does not contain "forgot", reason type other, confidence
\* 30, approval required.  (A text with "Forgot" in another case may go
\* either way.)
FallbackVerdictExact ==
    (cls_pc \in {"analysed", "done"}
        /\ response.kind \in {"raises", "no_json", "bad_json"})
       => LET expected ==
                 IF StripLen(content) <= 10 \/ content.forgot = "forgot"
                 THEN {"false"}
                 ELSE IF content.forgot = "absent" THEN {"true"}
                 ELSE {"true", "false"}
          IN  /\ analysis.is_valid \in expected
              /\ analysis.reason_type = "other"
              /\ analysis.confidence = 30
              /\ analysis.requires_approval = "true"

\* C19: the validation of a reason never raises, whatever the language
\* model answered: it returns a verdict, the fallback verdict when the
\* answer lacks is_valid, and the engagement agent records the reply
\* against its case.
ValidationNeverRaises ==
    cls_pc = "done"
       => /\ ~verdict.raised
          /\ (response.kind = "json" /\ response.object.is_valid = "missing")
                => (verdict.valid =>
                       (StripLen(content) > 10 /\ content.forgot # "forgot"))
                   /\ (~verdict.valid =>
                       (StripLen(content) <= 10 \/ content.forgot # "absent"))
          /\ reply_callback = "engagement"
                => /\ engagement_status[ClassifiedKey] # NoCase
                   /\ engagement_status[ClassifiedKey].last_reply.id = reply_seq

\* C20: no two entries of the catalog have the same reason type, whatever
\* the sequence of get-or-create calls, additions, updates and
\* deactivations.
NoDuplicateReasonTypes ==
    \A i, j \in 1..Len(valid_reasons) :
       i # j => valid_reasons[i].reason_type # valid_reasons[j].reason_type

\* C21: adding a reason type that the catalog already holds is an error
\* without effect: the catalog grows by an entry only when no entry had the
\* reason type of the new one.
DuplicateInsertRejected ==
    [][Len(valid_reasons') = Len(valid_reasons) + 1
          => \A i \in 1..Len(valid_reasons) :
                valid_reasons[i].reason_type
                   # valid_reasons'[Len(valid_reasons')].reason_type]_vars

---------------------------------------------------------------------------
(* Properties of the detection of anomalies *)

\* The anomalies either detection path has reported for the entry of a date
ReportedFor(d) ==
    [analyze |-> SelectSeq(anomalies_by_employee, LAMBDA a : a.date = d),
     summary |-> SelectSeq(summary_anomalies[timesheets[d].employee_email],
                           LAMBDA a : a.date = d)]

\* What the detection rule asks for an entry under thresholds lo and hi
RuleKinds(ts, lo, hi) ==
    IF ts.hours_worked < lo THEN <<"missing_hours">>
    ELSE IF ts.hours_worked > hi THEN <<"excessive_hours">>
    ELSE <<>>

KindsOf(as) == [i \in 1..Len(as) |-> as[i].anomaly_type]

\* C22: for every entry, a detection that has run reports one missing_hours
\* anomaly iff the hours are below the configured minimum, one
\* excessive_hours anomaly iff they are above the maximum, and nothing
\* otherwise, the thresholds themselves included.
DetectionRule ==
    \A d \in 1..Len(timesheets) :
       LET ts == timesheets[d]
           rule == RuleKinds(ts, anomaly_threshold_hours, AnalyzeExcessiveAbove)
       IN  /\ "analyze_timesheets" \in detected
              => KindsOf(ReportedFor(d).analyze) = rule
           /\ ts.employee_email \in detected
              => KindsOf(ReportedFor(d).summary) = rule

\* C23: an anomaly has severity high iff the hours are below half of the
\* configured minimum; every other anomaly, at exactly half and every
\* excessive_hours anomaly included, has severity medium.
SeverityRule ==
    \A a \in Range(anomalies_by_employee)
             \cup UNION {Range(summary_anomalies[e]) : e \in Emails} :
       a.severity = IF a.anomaly_type = "missing_hours"
                       /\ 2 * a.actual_hours < anomaly_threshold_hours
                    THEN "high" ELSE "medium"

\* C24 as stated: the anomalies of analyze_timesheets come in the order of
\* the entries they are about, however the employees interleave.
DetectionPreservesInputOrder ==
    \A i, j \in 1..Len(anomalies_by_employee) :
       i < j => anomalies_by_employee[i].date < anomalies_by_employee[j].date

\* The row of the first entry of an employee
FirstRowOf(e) ==
    Min({d \in 1..Len(timesheets) : timesheets[d].employee_email = e})

\* C24: the anomalies of analyze_timesheets come employee by employee, the
\* employees in the order of their first entry, and for one employee in the
\* order of the entries.
DetectionGroupsByEmployee ==
    \A i, j \in 1..Len(anomalies_by_employee) :
       i < j =>
          LET a == anomalies_by_employee[i]
              b == anomalies_by_employee[j]
          IN  IF a.employee_email = b.employee_email
              THEN a.date < b.date
              ELSE FirstRowOf(a.employee_email) < FirstRowOf(b.employee_email)

\* Two employees interleave in the file and both have anomalies reported
InterleavedAnomalies ==
    /\ "analyze_timesheets" \in detected
    /\ \E i, j \in 1..Len(anomalies_by_employee) :
          /\ i < j
          /\ anomalies_by_employee[i].employee_email
                # anomalies_by_employee[j].employee_email
          /\ anomalies_by_employee[i].date > anomalies_by_employee[j].date

\* C28: once both paths have run on an entry, they report the same
\* missing_hours anomalies for it, with the same expected hours and the
\* same severity.
DetectionPathsAgree ==
    \A d \in 1..Len(timesheets) :
       ("analyze_timesheets" \in detected
           /\ timesheets[d].employee_email \in detected)
       => SelectSeq(ReportedFor(d).analyze,
                    LAMBDA a : a.anomaly_type = "missing_hours")
             = ReportedFor(d).summary

---------------------------------------------------------------------------
(* Properties of the poller and the replies it hands over *)

\* The date a reply is to be keyed by: the first date in its subject of the
\* first pattern that has one, the patterns taken in the order YYYY-MM-DD,
\* MM/DD/YYYY, MM-DD-YYYY, and "unknown" for a subject without a date
KeyDateOf(m, madeUp) ==
    LET subject == SubjectFor(m)
        at(p) == {i \in 1..Len(subject) : subject[i].pattern = p}
    IN  IF m \in madeUp THEN FallbackDate
        ELSE IF at("YYYY-MM-DD") # {} THEN subject[Min(at("YYYY-MM-DD"))].text
        ELSE IF at("MM/DD/YYYY") # {} THEN subject[Min(at("MM/DD/YYYY"))].text
        ELSE IF at("MM-DD-YYYY") # {} THEN subject[Min(at("MM-DD-YYYY"))].text
        ELSE "unknown"

\* C25: a reply handed to the handler of the engagement agent is recorded
\* under the key of its sender and the date of its subject, found by the
\* first matching pattern, or under "unknown" when the subject has no date.
RepliesKeyedBySubjectDate ==
    [][(reply_callback = "engagement" /\ last_done'.n # last_done.n) =>
          LET m == last_done'.msg
              k == <<msg_from'[m], KeyDateOf(m, synthesized')>>
          IN  /\ KeyOfMsg(msg_from', msg_date', m) = k
              /\ engagement_status'[k] # NoCase
              /\ engagement_status'[k].last_reply.id = m]_vars

\* C26: a poll loop whose first fetch could not reach the mailbox has
\* halted, and no reply is ever made up in place of a fetch that failed.
StartupFailureHalts ==
    /\ \A l \in Loops : unreachable_in[l] = 1 => pc[l] = "done"
    /\ synthesized = {}

\* C27: a reply whose handler raised is not left seen and unrecorded: it
\* has been handed to the handler again, or it can still be, not being both
\* in processed_messages and marked \Seen at the server.
NoReplyLost ==
    \A m \in raised \ handled :
       \/ m \in reforwarded
       \/ ~(m \in processed_messages /\ m \in consumed)

---------------------------------------------------------------------------
(* Properties of the bookkeeping of a case *)

\* The reply bookkeeping of the case of key k
RepliesOf(table, k) ==
    IF table[k] = NoCase THEN <<0, NoReply>>
    ELSE <<table[k].reply_count, table[k].last_reply>>

\* C29: every case has reply_count at least one and a last reply, its
\* reply_count is the number of replies the handler recorded for its key,
\* and only the recording of a reply changes reply_count or last_reply.
CaseBookkeeping ==
    /\ [](\A k \in Keys :
             engagement_status[k] # NoCase
             => /\ engagement_status[k].reply_count >= 1
                /\ engagement_status[k].last_reply # NoReply
                /\ engagement_status[k].reply_count = replies_recorded[k])
    /\ [][\A k \in Keys :
             RepliesOf(engagement_status', k) # RepliesOf(engagement_status, k)
             => replies_recorded'[k] = replies_recorded[k] + 1]_vars

\* A case that took two replies and a follow-up in between
SecondReplyAfterFollowup ==
    \E k \in Keys :
       /\ engagement_status[k] # NoCase
       /\ engagement_status[k].reply_count = 2
       /\ engagement_status[k].last_email_sent > 0
       /\ engagement_status[k].status = "replied"

---------------------------------------------------------------------------
(* Properties of the tools that start the poller *)

\* C30: a call of start_email_monitoring or check_email_replies while the
\* poller is stopped leaves monitoring_active true and a poll loop running.
StartingTakesEffect ==
    [][(/\ Len(tool_log') > Len(tool_log)
        /\ tool_log'[Len(tool_log')].tool
              \in {"start_email_monitoring", "check_email_replies"}
        /\ ~monitoring_active)
       => /\ monitoring_active'
          /\ \E l \in Loops : pc'[l] \in {"awaiting", "sleeping"}]_vars

====
